---- MODULE Spec2Model ----
(***************************************************************************)
(* The FAQ/Tag service of src/main.go: nine Gin handlers over one GORM     *)
(* connection to a SQLite store with three tables (faqs, tags, faq_tags).  *)
(*                                                                         *)
(* Abstractions.  deleted_at is a boolean (NULL / set); created_at and     *)
(* updated_at are left out.  A tag (FAQ) reference nested in a body is     *)
(* its ID alone, 0 meaning that the nested object carries no ID.  Path     *)
(* ids are numerals.  Every call into the store may fail for a reason      *)
(* of the store's own (SQLITE_BUSY, I/O); a failed call changes nothing.   *)
(***************************************************************************)
EXTENDS Integers, Sequences, FiniteSets, Bags, TLC

\* ------------------------------------------------------------- bounds
MaxFaqId == 2
MaxTagId == 2
MaxRefs == 2
MaxInflight == 2
MaxSteps == 3
MaxStepsReliable == 5

FaqIds == 1..MaxFaqId
TagIds == 1..MaxTagId

\* Values a JSON body can give to the text fields.  A field left out of a
\* created record is the empty string (Go's zero value).
Questions == {"Q2"}
Answers == {"", "A1"}
TagNames == {"billing"}
Categories == {"", "finance"}

\* An optional JSON member: <<>> when the key is absent, <<v>> when present.
None == <<>>
Some(v) == <<v>>

Range(s) == {s[i] : i \in 1..Len(s)}

MaxOf(S) == IF S = {} THEN 0 ELSE CHOOSE x \in S : \A y \in S : y <= x

\* ------------------------------------------------------ domain model
\* type FAQ struct { gorm.Model; Question; Answer; Tags []*Tag }
FAQ(id, q, a, del, tagrefs) ==
  [ID |-> id, question |-> q, answer |-> a, deleted |-> del, Tags |-> tagrefs]

\* type Tag struct { gorm.Model; TagName; Category; FAQs []*FAQ }
Tag(id, n, c, del, faqrefs) ==
  [ID |-> id, tag_name |-> n, category |-> c, deleted |-> del, FAQs |-> faqrefs]

\* var newFAQ FAQ / var faq FAQ: the zero value of the struct.
ZeroFAQ == FAQ(0, "", "", FALSE, <<>>)
ZeroTag == Tag(0, "", "", FALSE, <<>>)

\* A row of table faqs / tags; exists = FALSE stands for "no such row".
FaqRow(q, a, del) == [exists |-> TRUE, question |-> q, answer |-> a, deleted |-> del]
TagRow(n, c, del) == [exists |-> TRUE, tag_name |-> n, category |-> c, deleted |-> del]
NoFaqRow == [exists |-> FALSE, question |-> "", answer |-> "", deleted |-> FALSE]
NoTagRow == [exists |-> FALSE, tag_name |-> "", category |-> "", deleted |-> FALSE]

\* db.AutoMigrate(&FAQ{}, &Tag{}) on a fresh file: three empty tables.
\* faq_tags[<<f, t>>] is the number of join rows (faq_id f, tag_id t).
EmptyDB ==
  [faqs |-> [i \in FaqIds |-> NoFaqRow],
   tags |-> [i \in TagIds |-> NoTagRow],
   faq_tags |-> [p \in FaqIds \X TagIds |-> 0]]

\* ----------------------------------------------------- request bodies
\* Lists of at most n references drawn from ids.
RECURSIVE RefLists(_, _)
RefLists(ids, n) ==
  IF n = 0 THEN {<<>>}
  ELSE LET shorter == RefLists(ids, n - 1)
       IN shorter \cup
          {Append(s, i) : s \in {t \in shorter : Len(t) = n - 1}, i \in ids}

\* One list for each multiset of references (non-decreasing order); a nested
\* object without an ID comes alone.
Canonical(s) ==
  /\ \A i \in 1..(Len(s) - 1) : s[i] <= s[i + 1]
  /\ (\E i \in 1..Len(s) : s[i] = 0) => Len(s) = 1

\* "Tags" of an FAQ body: up to MaxRefs references, repeats included.
\* "FAQs" of a Tag body: one reference.
TagRefLists == {s \in RefLists(0..MaxTagId, MaxRefs) : Canonical(s)}
FaqRefLists == {<<i>> : i \in 0..MaxFaqId}

Body(ok, id, f1, f2, del, refs) ==
  [ok |-> ok, ID |-> id, f1 |-> f1, f2 |-> f2, DeletedAt |-> del, refs |-> refs]

\* The one body that does not deserialize.
MalformedBody == Body(FALSE, None, None, None, None, None)

Opt(S) == {None} \cup {Some(v) : v \in S}

\* Bodies sent to POST /faqs and PUT /faqs/:id.  f1 is "question", f2 is
\* "answer", refs is "Tags".  A body carries text fields, or an "ID", or a
\* "DeletedAt", or a non-empty "Tags" list.
FAQBodies ==
  {MalformedBody}
  \cup {Body(TRUE, None, q, a, None, None) : q \in Opt(Questions), a \in Opt(Answers)}
  \cup {Body(TRUE, Some(i), None, None, None, None) : i \in FaqIds}
  \cup {Body(TRUE, None, None, None, Some(TRUE), None)}
  \cup {Body(TRUE, None, None, None, None, Some(r)) : r \in TagRefLists \ {<<>>}}
  \cup {Body(TRUE, None, None, None, Some(TRUE), Some(<<t>>)) : t \in TagIds}

\* Bodies sent to POST /tags and PUT /tags/:id.  f1 is "tag_name", f2 is
\* "category", refs is "FAQs".
TagBodies ==
  {MalformedBody}
  \cup {Body(TRUE, None, n, c, None, None) : n \in Opt(TagNames), c \in Opt(Categories)}
  \cup {Body(TRUE, Some(i), None, None, None, None) : i \in TagIds}
  \cup {Body(TRUE, None, None, None, Some(TRUE), None)}
  \cup {Body(TRUE, None, None, None, None, Some(r)) : r \in FaqRefLists}

Pick(opt, old) == IF opt = None THEN old ELSE opt[1]

\* c.ShouldBindJSON(&faq): encoding/json writes the members the body has
\* onto the struct and leaves the other fields as they are.  gorm.Model is
\* embedded without a tag, so "ID" and "DeletedAt" are members like the rest.
BindFAQ(faq, body) ==
  FAQ(Pick(body.ID, faq.ID), Pick(body.f1, faq.question), Pick(body.f2, faq.answer),
      Pick(body.DeletedAt, faq.deleted), Pick(body.refs, faq.Tags))

BindTag(tag, body) ==
  Tag(Pick(body.ID, tag.ID), Pick(body.f1, tag.tag_name), Pick(body.f2, tag.category),
      Pick(body.DeletedAt, tag.deleted), Pick(body.refs, tag.FAQs))

\* ------------------------------------------------ persistence provider
\* The id SQLite gives a row inserted without one (integer PRIMARY KEY
\* AUTOINCREMENT): one more than the largest id the table ever held.  Rows are
\* never removed, so that is the largest id it holds.
NextFaqID(d) == MaxOf({i \in FaqIds : d.faqs[i].exists}) + 1
NextTagID(d) == MaxOf({i \in TagIds : d.tags[i].exists}) + 1

Live(row) == row.exists /\ ~row.deleted

\* Saving the Tags of an FAQ handed to Create or Save (GORM saves
\* associations unless told to omit them): every nested tag is inserted ON
\* CONFLICT DO NOTHING, one without an ID under a fresh id, and its id is
\* written back into the struct.  full: the model's id range is exhausted.
RECURSIVE UpsertTags(_, _)
UpsertTags(d, refs) ==
  IF refs = <<>> THEN [db |-> d, ids |-> <<>>, full |-> FALSE]
  ELSE LET id == IF Head(refs) = 0 THEN NextTagID(d) ELSE Head(refs)
       IN IF id > MaxTagId THEN [db |-> d, ids |-> <<>>, full |-> TRUE]
          ELSE LET d1 == IF d.tags[id].exists THEN d
                         ELSE [d EXCEPT !.tags[id] = TagRow("", "", FALSE)]
                   rest == UpsertTags(d1, Tail(refs))
               IN [db |-> rest.db, ids |-> <<id>> \o rest.ids, full |-> rest.full]

RECURSIVE UpsertFAQs(_, _)
UpsertFAQs(d, refs) ==
  IF refs = <<>> THEN [db |-> d, ids |-> <<>>, full |-> FALSE]
  ELSE LET id == IF Head(refs) = 0 THEN NextFaqID(d) ELSE Head(refs)
       IN IF id > MaxFaqId THEN [db |-> d, ids |-> <<>>, full |-> TRUE]
          ELSE LET d1 == IF d.faqs[id].exists THEN d
                         ELSE [d EXCEPT !.faqs[id] = FaqRow("", "", FALSE)]
                   rest == UpsertFAQs(d1, Tail(refs))
               IN [db |-> rest.db, ids |-> <<id>> \o rest.ids, full |-> rest.full]

\* INSERT INTO faq_tags (faq_id, tag_id) VALUES (f, t) ON CONFLICT DO
\* NOTHING: the primary key (faq_id, tag_id) keeps a pair that is there from
\* being added again.
InsertJoinRow(d, f, t) ==
  IF d.faq_tags[<<f, t>>] > 0 THEN d ELSE [d EXCEPT !.faq_tags[<<f, t>>] = 1]

\* The join rows of one FAQ and its saved tags, one for each entry of Tags.
RECURSIVE JoinTags(_, _, _)
JoinTags(d, fid, tids) ==
  IF tids = <<>> THEN d ELSE JoinTags(InsertJoinRow(d, fid, Head(tids)), fid, Tail(tids))

\* The join rows of one Tag and its saved FAQs, one for each entry of FAQs.
RECURSIVE JoinFAQs(_, _, _)
JoinFAQs(d, tid, fids) ==
  IF fids = <<>> THEN d ELSE JoinFAQs(InsertJoinRow(d, Head(fids), tid), tid, Tail(fids))

\* The associations of a saved FAQ / Tag: the nested rows, then the join rows.
SaveFAQAssociations(d, faq) ==
  LET up == UpsertTags(d, faq.Tags)
  IN [err |-> FALSE, full |-> up.full,
      db |-> IF up.full THEN d ELSE JoinTags(up.db, faq.ID, up.ids),
      rec |-> [faq EXCEPT !.Tags = IF up.full THEN @ ELSE up.ids]]

SaveTagAssociations(d, tag) ==
  LET up == UpsertFAQs(d, tag.FAQs)
  IN [err |-> FALSE, full |-> up.full,
      db |-> IF up.full THEN d ELSE JoinFAQs(up.db, tag.ID, up.ids),
      rec |-> [tag EXCEPT !.FAQs = IF up.full THEN @ ELSE up.ids]]

\* The outcome of a store call that failed: nothing written (each call runs in
\* GORM's default transaction), the struct as it was.
Failed(d, rec) == [err |-> TRUE, full |-> FALSE, db |-> d, rec |-> rec]

\* db.Create(&newFAQ): INSERT INTO faqs, under the struct's ID when it has one
\* (a row with that id, deleted or not, violates the primary key) and under a
\* fresh id otherwise; then the associations.
CreateFAQ(d, faq) ==
  IF faq.ID # 0 /\ d.faqs[faq.ID].exists THEN Failed(d, faq)
  ELSE LET id == IF faq.ID = 0 THEN NextFaqID(d) ELSE faq.ID
       IN IF id > MaxFaqId THEN [err |-> FALSE, full |-> TRUE, db |-> d, rec |-> faq]
          ELSE SaveFAQAssociations(
                 [d EXCEPT !.faqs[id] = FaqRow(faq.question, faq.answer, faq.deleted)],
                 [faq EXCEPT !.ID = id])

CreateTag(d, tag) ==
  IF tag.ID # 0 /\ d.tags[tag.ID].exists THEN Failed(d, tag)
  ELSE LET id == IF tag.ID = 0 THEN NextTagID(d) ELSE tag.ID
       IN IF id > MaxTagId THEN [err |-> FALSE, full |-> TRUE, db |-> d, rec |-> tag]
          ELSE SaveTagAssociations(
                 [d EXCEPT !.tags[id] = TagRow(tag.tag_name, tag.category, tag.deleted)],
                 [tag EXCEPT !.ID = id])

\* db.Save(&faq).  Without an ID it is Create.  With one it is UPDATE faqs SET
\* <every column> WHERE id = ID AND deleted_at IS NULL and, when that matched
\* no row, INSERT ... ON CONFLICT (id) DO UPDATE SET <every column>: whatever
\* the row was (missing, deleted, live) it now is what the struct says.  The
\* associations are saved as in Create.
SaveFAQ(d, faq) ==
  IF faq.ID = 0 THEN CreateFAQ(d, faq)
  ELSE SaveFAQAssociations(
         [d EXCEPT !.faqs[faq.ID] = FaqRow(faq.question, faq.answer, faq.deleted)], faq)

SaveTag(d, tag) ==
  IF tag.ID = 0 THEN CreateTag(d, tag)
  ELSE SaveTagAssociations(
         [d EXCEPT !.tags[tag.ID] = TagRow(tag.tag_name, tag.category, tag.deleted)], tag)

\* db.Delete(&faq): gorm.Model has DeletedAt, so this is UPDATE faqs SET
\* deleted_at = now WHERE id = ID AND deleted_at IS NULL.  The join rows stay.
DeleteFAQ(d, id) ==
  [err |-> FALSE, full |-> FALSE, rec |-> ZeroFAQ,
   db |-> IF Live(d.faqs[id]) THEN [d EXCEPT !.faqs[id].deleted = TRUE] ELSE d]

DeleteTag(d, id) ==
  [err |-> FALSE, full |-> FALSE, rec |-> ZeroTag,
   db |-> IF Live(d.tags[id]) THEN [d EXCEPT !.tags[id].deleted = TRUE] ELSE d]

\* A set of ids as the ascending list a query returns.
RECURSIVE Ascending(_)
Ascending(S) ==
  IF S = {} THEN <<>>
  ELSE LET m == CHOOSE x \in S : \A y \in S : x <= y IN <<m>> \o Ascending(S \ {m})

Repeat(x, n) == [i \in 1..n |-> x]

RECURSIVE Flatten(_)
Flatten(ss) == IF ss = <<>> THEN <<>> ELSE Head(ss) \o Flatten(Tail(ss))

\* Preload("Tags"): the join rows of the FAQ, then the tags they name that
\* are not deleted, one entry for each join row.
PreloadTags(d, fid) ==
  LET ts == Ascending({t \in TagIds : Live(d.tags[t])})
  IN Flatten([i \in 1..Len(ts) |-> Repeat(ts[i], d.faq_tags[<<fid, ts[i]>>])])

\* Mutant of FirstFAQ: the error of db.First is not looked at, the handler
\* goes on with whatever the struct holds.
FirstFAQ_ErrorIgnored(d, id) ==
  [err |-> FALSE, rec |-> FAQ(id, d.faqs[id].question, d.faqs[id].answer, FALSE, <<>>)]

\* db.First(&faq, id): the row with that id among those not deleted, or
\* ErrRecordNotFound.  The Tags field is not loaded.
FirstFAQ(d, id) ==
  IF Live(d.faqs[id])
  THEN [err |-> FALSE, rec |-> FAQ(id, d.faqs[id].question, d.faqs[id].answer, FALSE, <<>>)]
  ELSE [err |-> TRUE, rec |-> ZeroFAQ]

FirstTag(d, id) ==
  IF Live(d.tags[id])
  THEN [err |-> FALSE, rec |-> Tag(id, d.tags[id].tag_name, d.tags[id].category, FALSE, <<>>)]
  ELSE [err |-> TRUE, rec |-> ZeroTag]

\* db.Preload("Tags").First(&faq, id)
FirstFAQWithTags(d, id) ==
  LET r == FirstFAQ(d, id)
  IN IF r.err THEN r ELSE [r EXCEPT !.rec.Tags = PreloadTags(d, id)]

\* db.Preload("Tags").Find(&faqs)
FindFAQsWithTags(d) == {FirstFAQWithTags(d, i).rec : i \in {j \in FaqIds : Live(d.faqs[j])}}

\* db.Find(&tags)
FindTags(d) == {FirstTag(d, i).rec : i \in {j \in TagIds : Live(d.tags[j])}}

\* ------------------------------------------------------------ state
VARIABLES
  db,        \* the store: [faqs, tags, faq_tags]
  inflight,  \* bag of update / delete handlers between their First and their write
  resp,      \* what the step just taken answered (status 0: nothing yet)
  acked,     \* <<table, id>> of every delete answered 200 so far
  steps      \* handler steps taken so far

vars == <<db, inflight, resp, acked, steps>>

Response(op, id, status, rec, list) ==
  [op |-> op, id |-> id, status |-> status, rec |-> rec, list |-> list]

Handler(h, id, rec) == [h |-> h, id |-> id, rec |-> rec]

Waiting(h) == {r \in BagToSet(inflight) : r.h = h}
Enter(r) == inflight' = inflight (+) SetToBag({r})
Leave(r) == inflight' = inflight (-) SetToBag({r})

Init ==
  /\ db = EmptyDB
  /\ inflight = EmptyBag
  /\ resp = Response("start", 0, 0, ZeroFAQ, {})
  /\ acked = {}
  /\ steps = 0

\* ---------------------------------------------------------- FAQ handlers
\* fail: the store call of the step fails.

\* POST /faqs
createFAQHandler(body, fail) ==
  IF ~body.ok
  THEN /\ resp' = Response("createFAQ", 0, 400, ZeroFAQ, {})
       /\ UNCHANGED <<db, inflight, acked>>
  ELSE LET newFAQ == BindFAQ(ZeroFAQ, body)
           r == IF fail THEN Failed(db, newFAQ) ELSE CreateFAQ(db, newFAQ)
       IN /\ ~r.full
          /\ IF r.err
             THEN /\ resp' = Response("createFAQ", 0, 500, ZeroFAQ, {})
                  /\ UNCHANGED db
             ELSE /\ resp' = Response("createFAQ", 0, 201, r.rec, {})
                  /\ db' = r.db
          /\ UNCHANGED <<inflight, acked>>

\* GET /faqs
preloadFAQsHandler(fail) ==
  /\ resp' = IF fail THEN Response("listFAQs", 0, 500, ZeroFAQ, {})
             ELSE Response("listFAQs", 0, 200, ZeroFAQ, FindFAQsWithTags(db))
  /\ UNCHANGED <<db, inflight, acked>>

\* GET /faqs/:id: any error of the query is answered 404.
readFAQHandler(id, fail) ==
  LET r == IF fail THEN Failed(db, ZeroFAQ) ELSE FirstFAQWithTags(db, id)
  IN /\ resp' = IF r.err THEN Response("readFAQ", id, 404, ZeroFAQ, {})
                ELSE Response("readFAQ", id, 200, r.rec, {})
     /\ UNCHANGED <<db, inflight, acked>>

\* PUT /faqs/:id, up to db.First: any error of the query is answered 404.
updateFAQHandler_First(id, fail) ==
  LET r == IF fail THEN Failed(db, ZeroFAQ) ELSE FirstFAQ(db, id)
  IN IF r.err
     THEN /\ resp' = Response("updateFAQ", id, 404, ZeroFAQ, {})
          /\ UNCHANGED <<db, inflight, acked>>
     ELSE /\ BagCardinality(inflight) < MaxInflight
          /\ Enter(Handler("updateFAQ", id, r.rec))
          /\ resp' = Response("updateFAQ", id, 0, ZeroFAQ, {})
          /\ UNCHANGED <<db, acked>>

\* Mutant of updateFAQHandler_Save: the error of c.ShouldBindJSON is dropped
\* too, and the loaded record is saved and answered.
updateFAQHandler_Save_BindUnchecked(h, body, fail) ==
  LET faq == IF body.ok THEN BindFAQ(h.rec, body) ELSE [h.rec EXCEPT !.question = ""]
      r == IF fail THEN Failed(db, faq) ELSE SaveFAQ(db, faq)
  IN /\ Leave(h)
     /\ ~r.full
     /\ db' = r.db
     /\ resp' = Response("updateFAQ", h.id, 200, r.rec, {})
     /\ UNCHANGED acked

\* PUT /faqs/:id, from c.ShouldBindJSON on: the error of db.Save is dropped.
updateFAQHandler_Save(h, body, fail) ==
  /\ Leave(h)
  /\ IF ~body.ok
     THEN /\ resp' = Response("updateFAQ", h.id, 400, ZeroFAQ, {})
          /\ UNCHANGED <<db, acked>>
     ELSE LET faq == BindFAQ(h.rec, body)
              r == IF fail THEN Failed(db, faq) ELSE SaveFAQ(db, faq)
          IN /\ ~r.full
             /\ db' = r.db
             /\ resp' = Response("updateFAQ", h.id, 200, r.rec, {})
             /\ UNCHANGED acked

\* DELETE /faqs/:id, up to db.First: any error of the query is answered 404.
deleteFAQHandler_First(id, fail) ==
  LET r == IF fail THEN Failed(db, ZeroFAQ) ELSE FirstFAQ(db, id)
  IN IF r.err
     THEN /\ resp' = Response("deleteFAQ", id, 404, ZeroFAQ, {})
          /\ UNCHANGED <<db, inflight, acked>>
     ELSE /\ BagCardinality(inflight) < MaxInflight
          /\ Enter(Handler("deleteFAQ", id, r.rec))
          /\ resp' = Response("deleteFAQ", id, 0, ZeroFAQ, {})
          /\ UNCHANGED <<db, acked>>

\* DELETE /faqs/:id, from db.Delete on: its error is dropped.
deleteFAQHandler_Delete(h, fail) ==
  LET r == IF fail THEN Failed(db, h.rec) ELSE DeleteFAQ(db, h.rec.ID)
  IN /\ Leave(h)
     /\ db' = r.db
     /\ resp' = Response("deleteFAQ", h.id, 200, ZeroFAQ, {})
     /\ acked' = acked \cup {<<"faqs", h.id>>}

\* ---------------------------------------------------------- Tag handlers
\* POST /tags
createTagHandler(body, fail) ==
  IF ~body.ok
  THEN /\ resp' = Response("createTag", 0, 400, ZeroTag, {})
       /\ UNCHANGED <<db, inflight, acked>>
  ELSE LET newTag == BindTag(ZeroTag, body)
           r == IF fail THEN Failed(db, newTag) ELSE CreateTag(db, newTag)
       IN /\ ~r.full
          /\ IF r.err
             THEN /\ resp' = Response("createTag", 0, 500, ZeroTag, {})
                  /\ UNCHANGED db
             ELSE /\ resp' = Response("createTag", 0, 201, r.rec, {})
                  /\ db' = r.db
          /\ UNCHANGED <<inflight, acked>>

\* GET /tags
getTagsHandler(fail) ==
  /\ resp' = IF fail THEN Response("listTags", 0, 500, ZeroTag, {})
             ELSE Response("listTags", 0, 200, ZeroTag, FindTags(db))
  /\ UNCHANGED <<db, inflight, acked>>

\* PUT /tags/:id, up to db.First: any error of the query is answered 404.
updateTagHandler_First(id, fail) ==
  LET r == IF fail THEN Failed(db, ZeroTag) ELSE FirstTag(db, id)
  IN IF r.err
     THEN /\ resp' = Response("updateTag", id, 404, ZeroTag, {})
          /\ UNCHANGED <<db, inflight, acked>>
     ELSE /\ BagCardinality(inflight) < MaxInflight
          /\ Enter(Handler("updateTag", id, r.rec))
          /\ resp' = Response("updateTag", id, 0, ZeroTag, {})
          /\ UNCHANGED <<db, acked>>

\* PUT /tags/:id, from c.ShouldBindJSON on: the error of db.Save is dropped.
updateTagHandler_Save(h, body, fail) ==
  /\ Leave(h)
  /\ IF ~body.ok
     THEN /\ resp' = Response("updateTag", h.id, 400, ZeroTag, {})
          /\ UNCHANGED <<db, acked>>
     ELSE LET tag == BindTag(h.rec, body)
              r == IF fail THEN Failed(db, tag) ELSE SaveTag(db, tag)
          IN /\ ~r.full
             /\ db' = r.db
             /\ resp' = Response("updateTag", h.id, 200, r.rec, {})
             /\ UNCHANGED acked

\* DELETE /tags/:id, up to db.First: any error of the query is answered 404.
deleteTagHandler_First(id, fail) ==
  LET r == IF fail THEN Failed(db, ZeroTag) ELSE FirstTag(db, id)
  IN IF r.err
     THEN /\ resp' = Response("deleteTag", id, 404, ZeroTag, {})
          /\ UNCHANGED <<db, inflight, acked>>
     ELSE /\ BagCardinality(inflight) < MaxInflight
          /\ Enter(Handler("deleteTag", id, r.rec))
          /\ resp' = Response("deleteTag", id, 0, ZeroTag, {})
          /\ UNCHANGED <<db, acked>>

\* DELETE /tags/:id, from db.Delete on: its error is dropped.
deleteTagHandler_Delete(h, fail) ==
  LET r == IF fail THEN Failed(db, h.rec) ELSE DeleteTag(db, h.rec.ID)
  IN /\ Leave(h)
     /\ db' = r.db
     /\ resp' = Response("deleteTag", h.id, 200, ZeroTag, {})
     /\ acked' = acked \cup {<<"tags", h.id>>}

\* ---------------------------------------------------------- specifications
\* setupRouter: each request is served by its handler, concurrently with the
\* handlers already between two store calls.  F: the outcomes a store call
\* can have; n: how many handler steps a run takes.
Tick(n) == steps < n /\ steps' = steps + 1

Serve(F, n) ==
  \/ \E body \in FAQBodies, fail \in F : Tick(n) /\ createFAQHandler(body, fail)
  \/ \E fail \in F : Tick(n) /\ preloadFAQsHandler(fail)
  \/ \E id \in FaqIds, fail \in F : Tick(n) /\ readFAQHandler(id, fail)
  \/ \E id \in FaqIds, fail \in F : Tick(n) /\ updateFAQHandler_First(id, fail)
  \/ \E h \in Waiting("updateFAQ"), body \in FAQBodies, fail \in F :
       Tick(n) /\ updateFAQHandler_Save(h, body, fail)
  \/ \E id \in FaqIds, fail \in F : Tick(n) /\ deleteFAQHandler_First(id, fail)
  \/ \E h \in Waiting("deleteFAQ"), fail \in F : Tick(n) /\ deleteFAQHandler_Delete(h, fail)
  \/ \E body \in TagBodies, fail \in F : Tick(n) /\ createTagHandler(body, fail)
  \/ \E fail \in F : Tick(n) /\ getTagsHandler(fail)
  \/ \E id \in TagIds, fail \in F : Tick(n) /\ updateTagHandler_First(id, fail)
  \/ \E h \in Waiting("updateTag"), body \in TagBodies, fail \in F :
       Tick(n) /\ updateTagHandler_Save(h, body, fail)
  \/ \E id \in TagIds, fail \in F : Tick(n) /\ deleteTagHandler_First(id, fail)
  \/ \E h \in Waiting("deleteTag"), fail \in F : Tick(n) /\ deleteTagHandler_Delete(h, fail)

\* Store calls may fail.
Next == Serve(BOOLEAN, MaxSteps)
Spec == Init /\ [][Next]_vars

\* The store answers every call; runs are longer.
NextReliable == Serve({FALSE}, MaxStepsReliable)
SpecReliable == Init /\ [][NextReliable]_vars

\* ------------------------------------------------------------- claims
\* Every step is a handler step (it advances steps), and resp' is what that
\* step answered: resp'.op and resp'.id name the request, resp'.status = 0
\* says that the handler has not answered yet.

\* C6: for an id that has no row in its table (rows are never removed, so an
\* id that was never created), GET, PUT and DELETE /faqs/:id and PUT and
\* DELETE /tags/:id answer 404 and leave the three tables as they were.
C6_NeverCreatedIsNotFound ==
  [][/\ \A id \in FaqIds :
          (/\ resp'.op \in {"readFAQ", "updateFAQ", "deleteFAQ"}
           /\ resp'.id = id
           /\ ~db.faqs[id].exists)
          => (resp'.status = 404 /\ db' = db)
     /\ \A id \in TagIds :
          (/\ resp'.op \in {"updateTag", "deleteTag"}
           /\ resp'.id = id
           /\ ~db.tags[id].exists)
          => (resp'.status = 404 /\ db' = db)]_vars

\* A PUT /faqs/2 answered 404 while FAQ 1 exists and FAQ 2 never did.
C6_Witness ==
  /\ resp.op = "updateFAQ" /\ resp.id = 2 /\ resp.status = 404
  /\ db.faqs[1].exists /\ ~db.faqs[2].exists

\* C7: a body that does not deserialize, sent to POST /faqs, POST /tags, or
\* to PUT /faqs/:id or PUT /tags/:id of a record the handler has loaded, is
\* answered 400 and the three tables stay as they were, whether or not the
\* store would have answered.
C7_MalformedBodyChangesNothing ==
  [][\A fail \in BOOLEAN :
       /\ createFAQHandler(MalformedBody, fail) => (resp'.status = 400 /\ db' = db)
       /\ createTagHandler(MalformedBody, fail) => (resp'.status = 400 /\ db' = db)
       /\ \A h \in Waiting("updateFAQ") :
            updateFAQHandler_Save(h, MalformedBody, fail)
            => (resp'.status = 400 /\ db' = db)
       /\ \A h \in Waiting("updateTag") :
            updateTagHandler_Save(h, MalformedBody, fail)
            => (resp'.status = 400 /\ db' = db)]_vars

\* A PUT with a malformed body on an FAQ that exists has been answered 400.
C7_Witness ==
  /\ resp.op = "updateFAQ" /\ resp.status = 400
  /\ Live(db.faqs[resp.id])

\* C8: POST /faqs answered 201 with a record whose Tags (the references of
\* the body, as the response returns them) all name tags that existed and were
\* not deleted when the request came: GET /faqs/:id of the returned id then
\* finds the FAQ with exactly the tags listed, each once, and GET /faqs lists
\* that FAQ with the same tags.
C8_CreatedTagsReadBack ==
  [][(/\ resp'.op = "createFAQ"
      /\ resp'.status = 201
      /\ resp'.rec.Tags # <<>>
      /\ \A i \in 1..Len(resp'.rec.Tags) : Live(db.tags[resp'.rec.Tags[i]]))
     => LET id == resp'.rec.ID
            listed == Ascending(Range(resp'.rec.Tags))
            read == FirstFAQWithTags(db', id)
        IN /\ ~read.err
           /\ read.rec.Tags = listed
           /\ \E f \in FindFAQsWithTags(db') : f.ID = id /\ f.Tags = listed]_vars

\* C1: POST /faqs with any body that deserializes is answered 201 with a
\* record whose id is not 0 and was the id of no FAQ row before, and GET
\* /faqs/:id of that id, issued next, finds a record with the question and the
\* answer of the body.  (Stated for a store that answers every call.)
C1_CreateThenRead ==
  [][\A body \in FAQBodies :
       (body.ok /\ createFAQHandler(body, FALSE))
       => LET read == FirstFAQWithTags(db', resp'.rec.ID)
          IN /\ resp'.status = 201
             /\ resp'.rec.ID # 0
             /\ ~db.faqs[resp'.rec.ID].exists
             /\ ~read.err
             /\ read.rec.question = Pick(body.f1, "")
             /\ read.rec.answer = Pick(body.f2, "")]_vars

\* C2: in the state a DELETE /faqs/:id or DELETE /tags/:id answered 200 leaves
\* (nothing else has run since), the row is still there with deleted_at set,
\* GET /faqs/:id does not find it and GET /faqs, GET /tags do not list it.
C2_DeletedIsGone ==
  /\ (resp.op = "deleteFAQ" /\ resp.status = 200)
     => /\ db.faqs[resp.id].exists /\ db.faqs[resp.id].deleted
        /\ FirstFAQWithTags(db, resp.id).err
        /\ \A f \in FindFAQsWithTags(db) : f.ID # resp.id
  /\ (resp.op = "deleteTag" /\ resp.status = 200)
     => /\ db.tags[resp.id].exists /\ db.tags[resp.id].deleted
        /\ \A t \in FindTags(db) : t.ID # resp.id

\* C3: a request whose call into the store fails is answered 500: the write
\* of a create, update or delete of an FAQ or Tag (never 200 or 201), the
\* query of GET /faqs/:id, GET /faqs, GET /tags, and the query that loads the
\* record of an update or delete.
C3_FailedCallIs500 ==
  [][/\ \A body \in FAQBodies :
          (body.ok /\ createFAQHandler(body, TRUE)) => resp'.status = 500
     /\ \A body \in TagBodies :
          (body.ok /\ createTagHandler(body, TRUE)) => resp'.status = 500
     /\ \A h \in Waiting("updateFAQ"), body \in FAQBodies :
          (body.ok /\ updateFAQHandler_Save(h, body, TRUE)) => resp'.status = 500
     /\ \A h \in Waiting("updateTag"), body \in TagBodies :
          (body.ok /\ updateTagHandler_Save(h, body, TRUE)) => resp'.status = 500
     /\ \A h \in Waiting("deleteFAQ") :
          deleteFAQHandler_Delete(h, TRUE) => resp'.status = 500
     /\ \A h \in Waiting("deleteTag") :
          deleteTagHandler_Delete(h, TRUE) => resp'.status = 500
     /\ preloadFAQsHandler(TRUE) => resp'.status = 500
     /\ getTagsHandler(TRUE) => resp'.status = 500
     /\ \A id \in FaqIds :
          /\ readFAQHandler(id, TRUE) => resp'.status = 500
          /\ updateFAQHandler_First(id, TRUE) => resp'.status = 500
          /\ deleteFAQHandler_First(id, TRUE) => resp'.status = 500
     /\ \A id \in TagIds :
          /\ updateTagHandler_First(id, TRUE) => resp'.status = 500
          /\ deleteTagHandler_First(id, TRUE) => resp'.status = 500]_vars

\* C4: a row appears in table faqs only in a step of POST /faqs and a row
\* appears in table tags only in a step of POST /tags.
C4_RowsOnlyByOwnCreate ==
  [][/\ \A i \in FaqIds :
          (~db.faqs[i].exists /\ db'.faqs[i].exists) => resp'.op = "createFAQ"
     /\ \A i \in TagIds :
          (~db.tags[i].exists /\ db'.tags[i].exists) => resp'.op = "createTag"]_vars

\* {"question": "Q2"}, {"answer": ""}, {"tag_name": "billing"}, {"category": ""}
BodyF1(v) == Body(TRUE, None, Some(v), None, None, None)
BodyF2(v) == Body(TRUE, None, None, Some(v), None, None)

\* C5: PUT /faqs/:id answered 200 on a record loaded with answer "A1": with
\* the body {"question": "Q2"} the stored and the returned record have answer
\* "A1" and question "Q2"; with the body {"answer": ""} they have answer "".
\* The same for tag_name and category of PUT /tags/:id.
C5_UpdateMergesOntoLoaded ==
  [][\A fail \in BOOLEAN :
       /\ \A h \in Waiting("updateFAQ") :
            /\ (h.rec.answer = "A1" /\ updateFAQHandler_Save(h, BodyF1("Q2"), fail))
               => /\ db'.faqs[h.id].answer = "A1" /\ db'.faqs[h.id].question = "Q2"
                  /\ resp'.rec.answer = "A1" /\ resp'.rec.question = "Q2"
            /\ (h.rec.answer = "A1" /\ updateFAQHandler_Save(h, BodyF2(""), fail))
               => /\ db'.faqs[h.id].answer = "" /\ resp'.rec.answer = ""
       /\ \A h \in Waiting("updateTag") :
            /\ (h.rec.category = "finance" /\ updateTagHandler_Save(h, BodyF1("billing"), fail))
               => /\ db'.tags[h.id].category = "finance" /\ db'.tags[h.id].tag_name = "billing"
                  /\ resp'.rec.category = "finance" /\ resp'.rec.tag_name = "billing"
            /\ (h.rec.category = "finance" /\ updateTagHandler_Save(h, BodyF2(""), fail))
               => /\ db'.tags[h.id].category = "" /\ resp'.rec.category = ""]_vars

\* C9: once DELETE /faqs/:id or DELETE /tags/:id has answered 200, in every
\* later state GET /faqs/:id does not find the record and GET /faqs, GET /tags
\* do not list it, whatever updates were in flight.
C9_DeletedStaysGone ==
  /\ \A id \in FaqIds :
       <<"faqs", id>> \in acked
       => /\ FirstFAQWithTags(db, id).err
          /\ \A f \in FindFAQsWithTags(db) : f.ID # id
  /\ \A id \in TagIds :
       <<"tags", id>> \in acked => \A t \in FindTags(db) : t.ID # id

\* C10: PUT /faqs/:id and PUT /tags/:id with any body that deserializes save
\* the row of the path id: the record answered has that id, every other row
\* of the table is as it was, and the row of the path id is not deleted.
C10_UpdateTouchesOnlyPathId ==
  [][/\ \A h \in Waiting("updateFAQ"), body \in FAQBodies :
          (body.ok /\ updateFAQHandler_Save(h, body, FALSE))
          => /\ resp'.rec.ID = h.id
             /\ \A j \in FaqIds \ {h.id} : db'.faqs[j] = db.faqs[j]
             /\ Live(db'.faqs[h.id])
     /\ \A h \in Waiting("updateTag"), body \in TagBodies :
          (body.ok /\ updateTagHandler_Save(h, body, FALSE))
          => /\ resp'.rec.ID = h.id
             /\ \A j \in TagIds \ {h.id} : db'.tags[j] = db.tags[j]
             /\ Live(db'.tags[h.id])]_vars

====
